---- MODULE Spec2Model ----
(***************************************************************************)
(* State-machine model of the compositor protocol state synchronizer of    *)
(* cosmic-applet-workspace-apps (src/src/wayland_subscription.rs):         *)
(* AppData, its WorkspaceHandler / ToplevelInfoHandler / OutputHandler     *)
(* callbacks, and the bounded mpsc channel that carries WaylandEvent       *)
(* values from the dispatch thread to the iced application.                *)
(*                                                                         *)
(* The protocol libraries' own state (OutputState, WorkspaceState,         *)
(* ToplevelInfoState) is the environment: outName, wsGroup, wsInfo,        *)
(* tlInfo and tlPhase hold what the handlers read from it.                 *)
(***************************************************************************)
EXTENDS Naturals, Integers, Sequences, FiniteSets, TLC

(* ------------------------------ bounds -------------------------------- *)

\* Slots of the channel buffer; stands for the 16 of mpsc::channel(16),
\* scaled down so that a full channel is reached.
ChannelBuffer == 1
\* Number of send attempts the history of SpecChan records before it stops.
MaxProduced == 4
\* Number of desktop entries that are indexed before the scan stops.
MaxScanned == 3

(* ----------------------- the compositor's universe -------------------- *)

\* The workspace handles and the toplevel handles the compositor issues
\* (a closed toplevel's handle is not issued again).
WsHandles == {1, 2}
TlHandles == {1, 2}
\* Two wl_output proxies.
Outputs == {1, 2}
\* Output names (OutputInfo.name): output 1 is the monitor "A", output 2
\* the monitor "B".
OutNames(o) == IF o = 1 THEN {"A"} ELSE {"B"}
\* The compositor keeps one workspace group per output: group g is the
\* group of output g.  Workspace 1 is on output 1; workspace 2 is on either.
Groups == Outputs
GroupChoices == {f \in [WsHandles -> Groups] : f[1] = 1}
\* Workspace names, ordered as the strings "1" < "2" are.
WsNames == {1, 2}
AppIds == {"firefox"}

\* Option::None of every Option the handlers read.
NoInfo == [tag |-> "none"]
NoEvent == [kind |-> "NoEvent"]
\* expected_output: None
NoOutput == 0
\* OutputState holds no info for the output yet.
NotAdvertised == "<none>"
\* The output was destroyed: OutputState holds no info for it any more and
\* its proxy is not advertised again.
Destroyed == "<destroyed>"
\* WorkspaceState no longer holds the workspace (its handle is not reused).
Removed == [tag |-> "removed"]

\* cctk Workspace info as far as AppWorkspace::new reads it.
WsInfos == [name : WsNames, is_active : {FALSE}]
\* The same with the Active state bit.
AllWsInfos == [name : WsNames, is_active : BOOLEAN]

\* Injective sequences over S: a toplevel's reported workspace handles.
InjSeqs(S) ==
  UNION {{s \in [1..n -> S] : \A i, j \in 1..n : s[i] = s[j] => i = j} :
           n \in 0..Cardinality(S)}

\* ToplevelInfo.geometry: output -> (x, y).
Geometries == {(1 :> <<1, 0>>)}

\* The elements of the sequence s.
Range(s) == {s[i] : i \in DOMAIN s}

\* cctk ToplevelInfo as far as AppToplevel::new and get_toplevel_from_handle
\* read it.  ToplevelInfo.workspace is a HashSet: `workspace` is that set in
\* the order its iterator yields it, which is any order; `reported` is the
\* same set in the order the compositor reported the handles.
TlInfos ==
  {info \in [app_id : AppIds, activated : {FALSE},
             workspace : InjSeqs(WsHandles), reported : InjSeqs(WsHandles),
             geometry : Geometries] :
     Range(info.workspace) = Range(info.reported)}
\* The infos of a toplevel that is on exactly one workspace.
TlInfosOne == {info \in TlInfos : Len(info.workspace) = 1}

(* ------------------------------- state -------------------------------- *)

VARIABLES
  sender,              \* AppData.sender exists: the channel has its Sender
  configured_output,   \* AppData.configured_output ("" when the variable is unset)
  expected_output,     \* AppData.expected_output (NoOutput = None)
  workspaces,          \* AppData.workspaces: handle -> AppWorkspace
  toplevels,           \* AppData.toplevels: handle -> AppToplevel (the flat map)
  workspace_toplevels, \* AppData.workspace_toplevels: the Index
  chan,                \* undelivered events of the mpsc channel, oldest first
  outName,             \* OutputState: output -> name, NotAdvertised before it is
  wsGroup,             \* WorkspaceState: workspace handle -> its group
  wsInfo,              \* WorkspaceState: workspace handle -> info
  tlInfo,              \* ToplevelInfoState: toplevel handle -> info
  tlPhase,             \* "new" (not advertised), "open", "closed"
  last,                \* what the last step of the dispatch thread produced
  produced,            \* history: every send attempt [ev, ok], in order
  received,            \* history: every event the consumer took, in order
  matcher,             \* DesktopMatcher: its three indexes
  scanned,             \* history: the entries given to index_entry, in order
  found                \* the last find_desktop_file: [app_id, entry]

appVars == <<sender, configured_output, expected_output, workspaces, toplevels,
             workspace_toplevels>>
envVars == <<outName, wsGroup, wsInfo, tlInfo, tlPhase>>
histVars == <<produced, received>>
matchVars == <<matcher, scanned, found>>
vars == <<appVars, envVars, chan, last, histVars, matchVars>>

(* ------------------------------ helpers ------------------------------- *)

\* The map m without the keys in K (HashMap::remove for each).
Without(m, K) == [k \in (DOMAIN m) \ K |-> m[k]]
\* The map m with key k set to v (HashMap::insert).
Insert(m, k, v) == [x \in (DOMAIN m) \cup {k} |-> IF x = k THEN v ELSE m[x]]

\* Capacity of the channel for its single Sender: buffer + one slot per sender.
Capacity == ChannelBuffer + 1

AppWorkspace_new(h, info) ==
  [handle |-> h, name |-> info.name, is_active |-> info.is_active,
   coordinates |-> <<0, 0>>]

\* WorkspaceState::workspace_info(handle) is Some.
HasWsInfo(h) == wsInfo[h] \notin {NoInfo, Removed}

get_workspace_from_handle(h) ==
  IF HasWsInfo(h) THEN AppWorkspace_new(h, wsInfo[h]) ELSE NoInfo

AppToplevel_new(h, info, ws, wl_output) ==
  [handle |-> h, app_id |-> info.app_id, is_active |-> info.activated,
   ws_handle |-> ws.handle,
   coordinates |-> IF wl_output # NoOutput /\ wl_output \in DOMAIN info.geometry
                     THEN info.geometry[wl_output] ELSE <<0, 0>>]

\* filter_map(get_workspace_from_handle) over the reported handles.
ResolvedWs(seq) == SelectSeq(seq, HasWsInfo)

get_toplevel_from_handle(h) ==
  IF tlInfo[h] = NoInfo THEN NoInfo
  ELSE LET ws == ResolvedWs(tlInfo[h].workspace) IN
       IF Len(ws) = 0 THEN NoInfo
       ELSE AppToplevel_new(h, tlInfo[h],
                            get_workspace_from_handle(ws[Len(ws)]),
                            expected_output)

\* is_active_output that ignores the expected output.
is_active_output_any(output) == TRUE

is_active_output(output) ==
  expected_output = NoOutput \/ output = expected_output

\* try_send that ignores the bound of the channel.
try_send_unbounded(q, event) == Append(q, event)

\* try_send that queues the event in front of the undelivered ones.
try_send_front(q, event) ==
  IF Len(q) < Capacity THEN <<event>> \o q ELSE q

\* Sender::try_send: the queue after the attempt.
try_send(q, event) == IF Len(q) < Capacity THEN Append(q, event) ELSE q

\* send_event's effect on the channel and on the record of the last step.
\* (The dispatch thread has no access to the application's DesktopMatcher.)
send_event(op, event) ==
  /\ UNCHANGED matchVars
  /\ chan' = try_send(chan, event)
  /\ last' = [op |-> op, ev |-> event, ok |-> try_send(chan, event) # chan]

\* A step that returns without producing an event.
no_event(op) ==
  /\ UNCHANGED matchVars
  /\ chan' = chan
  /\ last' = [op |-> op, ev |-> NoEvent, ok |-> FALSE]

\* remove_toplevel that forgets the Index bucket.
remove_toplevel_flat_only(tls, idx, h) ==
  IF h \in DOMAIN tls
    THEN <<Without(tls, {h}), idx, tls[h].ws_handle \in DOMAIN idx>>
    ELSE <<tls, idx, FALSE>>

\* remove_toplevel: <<toplevels, workspace_toplevels, returned bool>> after it.
remove_toplevel(tls, idx, h) ==
  IF h \in DOMAIN tls
    THEN LET ws_id == tls[h].ws_handle IN
         IF ws_id \in DOMAIN idx
           THEN <<Without(tls, {h}),
                  [idx EXCEPT ![ws_id] = Without(idx[ws_id], {h})], TRUE>>
           ELSE <<Without(tls, {h}), idx, FALSE>>
    ELSE <<tls, idx, FALSE>>

\* add_top_level that does not remove the toplevel first.
add_top_level_no_remove(tls, idx, tl) ==
  LET ws_toplevels == IF tl.ws_handle \in DOMAIN idx
                        THEN idx[tl.ws_handle] ELSE <<>>
  IN <<Insert(tls, tl.handle, tl),
       Insert(idx, tl.ws_handle, Insert(ws_toplevels, tl.handle, tl))>>

\* add_top_level that keeps the record the flat map already has.
add_top_level_stale_flat(tls, idx, tl) ==
  LET r == remove_toplevel(tls, idx, tl.handle)
      ws_toplevels == IF tl.ws_handle \in DOMAIN r[2]
                        THEN r[2][tl.ws_handle] ELSE <<>>
  IN <<IF tl.handle \in DOMAIN tls THEN tls ELSE Insert(tls, tl.handle, tl),
       Insert(r[2], tl.ws_handle, Insert(ws_toplevels, tl.handle, tl))>>

\* add_top_level: <<toplevels, workspace_toplevels>> after it.
add_top_level(tls, idx, tl) ==
  LET r == remove_toplevel(tls, idx, tl.handle)
      ws_toplevels == IF tl.ws_handle \in DOMAIN r[2]
                        THEN r[2][tl.ws_handle] ELSE <<>>
  IN <<Insert(r[1], tl.handle, tl),
       Insert(r[2], tl.ws_handle, Insert(ws_toplevels, tl.handle, tl))>>

get_matching_toplevel(tl) ==
  IF tl.ws_handle \in DOMAIN workspace_toplevels
     /\ tl.handle \in DOMAIN workspace_toplevels[tl.ws_handle]
    THEN workspace_toplevels[tl.ws_handle][tl.handle]
    ELSE NoInfo

(* ----------------------------- DesktopMatcher ------------------------- *)

\* The application directories that are scanned, in scan order.
DataDirs == {1, 2}
\* File stems of the .desktop files, StartupWMClass values and the app ids
\* looked up; they differ in case only, so that every index can hit.
FileStems == {"Firefox", "firefox"}
WmClasses == {"firefox", "FIREFOX"}
\* startup_wm_class: None (the file has no StartupWMClass key).
NoWmClass == "<unset>"
LookupIds == {"Firefox", "firefox", "FIREFOX"}

\* str::to_lowercase on the strings above.
to_lowercase(str) ==
  IF str \in {"Firefox", "FIREFOX", "firefox"} THEN "firefox" ELSE str

\* DesktopEntry: path is the directory and the file stem of the file.
DesktopEntries ==
  [path : [dir : DataDirs, file_stem : FileStems],
   startup_wm_class : WmClasses \cup {NoWmClass}]

\* HashMap::entry(k).or_insert(v): the first value stays.
or_insert(m, k, v) == IF k \in DOMAIN m THEN m ELSE Insert(m, k, v)

\* DesktopMatcher::index_entry: the matcher after it.
index_entry(m, entry) ==
  LET filename_str == entry.path.file_stem IN
  [filename_index |-> or_insert(m.filename_index, filename_str, entry),
   lowercase_filename_index |->
     or_insert(m.lowercase_filename_index, to_lowercase(filename_str), entry),
   wm_class_index |->
     IF entry.startup_wm_class # NoWmClass
       THEN or_insert(m.wm_class_index, entry.startup_wm_class, entry)
       ELSE m.wm_class_index]

\* find_desktop_file that tries the case-insensitive filename before the
\* StartupWMClass.
find_desktop_file_lowercase_first(m, app_id) ==
  IF app_id \in DOMAIN m.filename_index THEN m.filename_index[app_id]
  ELSE IF to_lowercase(app_id) \in DOMAIN m.lowercase_filename_index
    THEN m.lowercase_filename_index[to_lowercase(app_id)]
  ELSE IF app_id \in DOMAIN m.wm_class_index THEN m.wm_class_index[app_id]
  ELSE NoInfo

\* DesktopMatcher::find_desktop_file
find_desktop_file(m, app_id) ==
  IF app_id \in DOMAIN m.filename_index THEN m.filename_index[app_id]
  ELSE IF app_id \in DOMAIN m.wm_class_index THEN m.wm_class_index[app_id]
  ELSE LET app_id_lower == to_lowercase(app_id) IN
       IF app_id_lower \in DOMAIN m.lowercase_filename_index
         THEN m.lowercase_filename_index[app_id_lower]
         ELSE NoInfo

\* A DesktopMatcher with empty indexes, before any lookup.
NoDesktopFiles ==
  /\ matcher = [filename_index |-> <<>>, lowercase_filename_index |-> <<>>,
                wm_class_index |-> <<>>]
  /\ scanned = <<>>
  /\ found = NoInfo

\* scan_directories (or a caller of index_entry) indexes one more entry.
\* index_entry takes &mut self: no entry borrowed by an earlier lookup is
\* still held.
IndexEntry(entry) ==
  /\ Len(scanned) < MaxScanned
  /\ matcher' = index_entry(matcher, entry)
  /\ scanned' = Append(scanned, entry)
  /\ found' = NoInfo
  /\ UNCHANGED <<appVars, envVars, chan, last, histVars>>

\* The application looks an app id up.
FindDesktopFile(app_id) ==
  /\ found' = [app_id |-> app_id, entry |-> find_desktop_file(matcher, app_id)]
  /\ UNCHANGED <<matcher, scanned, appVars, envVars, chan, last, histVars>>

(* --------------------------- WorkspaceHandler -------------------------- *)

\* WorkspaceGroup.outputs of group g: its output once that is advertised.
group_outputs(g) ==
  IF outName[g] \notin {NotAdvertised, Destroyed} THEN {g} ELSE {}

\* WorkspaceGroup.workspaces of group g.
group_workspaces(g) == {h \in WsHandles : wsGroup[h] = g}

\* The groups done() keeps.
include(g) == \E output \in group_outputs(g) : is_active_output(output)

\* new_state of done(): every resolvable workspace of a kept group.
done_new_state ==
  [h \in {w \in WsHandles :
            /\ \E g \in Groups : include(g) /\ w \in group_workspaces(g)
            /\ HasWsInfo(w)}
     |-> get_workspace_from_handle(h)]

\* removed_keys that forgets the filter: every old key counts as removed.
removed_keys_all(old_state, new_state) == DOMAIN old_state

removed_keys(old_state, new_state) == (DOMAIN old_state) \ (DOMAIN new_state)

\* The collected values of m, left in the order the HashMap yields them.
workspaces_vec_unsorted(m) ==
  {s \in [1..Cardinality(DOMAIN m) -> {m[h] : h \in DOMAIN m}] :
     \A i, j \in DOMAIN s : s[i] = s[j] => i = j}

\* Every order of the values of m that sort_by_key(name) can leave: the
\* iteration order of a HashMap is arbitrary and the sort is stable.
workspaces_vec(m) ==
  {s \in [1..Cardinality(DOMAIN m) -> {m[h] : h \in DOMAIN m}] :
     /\ \A i, j \in DOMAIN s : s[i] = s[j] => i = j
     /\ \A i, j \in DOMAIN s : i < j => s[i].name <= s[j].name}

WorkspacesChanged(vec) == [kind |-> "WorkspacesChanged", list |-> vec]
ToplevelsUpdated(idx) == [kind |-> "ToplevelsUpdated", index |-> idx]

\* done()'s call of send_event: besides the attempt, the record of the step
\* keeps the removed_keys the cascade went through and the Index as it is
\* when send_event is called.
send_from_done(event, removed, index_at_send) ==
  /\ UNCHANGED matchVars
  /\ chan' = try_send(chan, event)
  /\ last' = [op |-> "done", ev |-> event, ok |-> try_send(chan, event) # chan,
              removed_keys |-> removed, index_at_send |-> index_at_send]

\* done() without the early return on an unchanged set.
done_always_emits ==
  LET new_state == done_new_state'
      removed == removed_keys(workspaces, new_state) IN
  /\ workspace_toplevels' = Without(workspace_toplevels, removed)
  /\ workspaces' = new_state
  /\ \E vec \in workspaces_vec(new_state) :
       send_from_done(WorkspacesChanged(vec), removed, workspace_toplevels')

\* done() that sends the event first and cascades afterwards.
done_sends_first ==
  LET new_state == done_new_state'
      removed == removed_keys(workspaces, new_state) IN
  IF workspaces = new_state
    THEN /\ no_event("done")
         /\ UNCHANGED <<workspaces, workspace_toplevels>>
    ELSE /\ \E vec \in workspaces_vec(new_state) :
              send_from_done(WorkspacesChanged(vec), removed,
                             workspace_toplevels)
         /\ workspace_toplevels' = Without(workspace_toplevels, removed)
         /\ workspaces' = new_state

\* done() that keeps the old mirrored state when the channel refuses the
\* event, so that the next completion signal finds the change again.
done_retries_after_drop ==
  LET new_state == done_new_state'
      removed == removed_keys(workspaces, new_state) IN
  IF workspaces = new_state
    THEN /\ no_event("done")
         /\ UNCHANGED <<workspaces, workspace_toplevels>>
    ELSE IF Len(chan) < Capacity
      THEN /\ workspace_toplevels' = Without(workspace_toplevels, removed)
           /\ workspaces' = new_state
           /\ \E vec \in workspaces_vec(new_state) :
                send_from_done(WorkspacesChanged(vec), removed,
                               workspace_toplevels')
      ELSE /\ UNCHANGED <<workspaces, workspace_toplevels>>
           /\ \E vec \in workspaces_vec(new_state) :
                send_from_done(WorkspacesChanged(vec), removed,
                               workspace_toplevels)

\* WorkspaceHandler::done, reading WorkspaceState as the batch left it.
done ==
  LET new_state == done_new_state'
      removed == removed_keys(workspaces, new_state) IN
  IF workspaces = new_state
    THEN /\ no_event("done")
         /\ UNCHANGED <<workspaces, workspace_toplevels>>
    ELSE /\ workspace_toplevels' = Without(workspace_toplevels, removed)
         /\ workspaces' = new_state
         /\ \E vec \in workspaces_vec(new_state) :
              send_from_done(WorkspacesChanged(vec), removed,
                             workspace_toplevels')

(* ------------------------- ToplevelInfoHandler ------------------------- *)

\* new_toplevel that sends only the bucket it changed.
new_toplevel_delta(handle) ==
  LET tl == get_toplevel_from_handle(handle)' IN
  IF tl # NoInfo
    THEN LET r == add_top_level(toplevels, workspace_toplevels, tl) IN
         /\ toplevels' = r[1]
         /\ workspace_toplevels' = r[2]
         /\ send_event("new_toplevel",
                       ToplevelsUpdated((tl.ws_handle :> r[2][tl.ws_handle])))
    ELSE /\ no_event("new_toplevel")
         /\ UNCHANGED <<toplevels, workspace_toplevels>>

\* new_toplevel that reports the Index also when it ignores the toplevel.
new_toplevel_reports_ignored(handle) ==
  LET tl == get_toplevel_from_handle(handle)' IN
  IF tl # NoInfo
    THEN LET r == add_top_level(toplevels, workspace_toplevels, tl) IN
         /\ toplevels' = r[1]
         /\ workspace_toplevels' = r[2]
         /\ send_event("new_toplevel", ToplevelsUpdated(r[2]))
    ELSE /\ send_event("new_toplevel", ToplevelsUpdated(workspace_toplevels))
         /\ UNCHANGED <<toplevels, workspace_toplevels>>

\* new_toplevel, reading ToplevelInfoState as the notification left it.
new_toplevel(handle) ==
  LET tl == get_toplevel_from_handle(handle)' IN
  IF tl # NoInfo
    THEN LET r == add_top_level(toplevels, workspace_toplevels, tl) IN
         /\ toplevels' = r[1]
         /\ workspace_toplevels' = r[2]
         /\ send_event("new_toplevel", ToplevelsUpdated(r[2]))
    ELSE /\ no_event("new_toplevel")
         /\ UNCHANGED <<toplevels, workspace_toplevels>>

\* update_toplevel without the comparison with the stored record.
update_toplevel_always(toplevel) ==
  LET new_app_toplevel == get_toplevel_from_handle(toplevel)' IN
  IF new_app_toplevel # NoInfo
    THEN LET r == add_top_level(toplevels, workspace_toplevels,
                                new_app_toplevel) IN
         /\ toplevels' = r[1]
         /\ workspace_toplevels' = r[2]
         /\ send_event("update_toplevel", ToplevelsUpdated(r[2]))
    ELSE /\ no_event("update_toplevel")
         /\ UNCHANGED <<toplevels, workspace_toplevels>>

\* update_toplevel, reading ToplevelInfoState as the notification left it.
update_toplevel(toplevel) ==
  LET new_app_toplevel == get_toplevel_from_handle(toplevel)' IN
  IF new_app_toplevel # NoInfo
    THEN IF get_matching_toplevel(new_app_toplevel) # new_app_toplevel
           THEN LET r == add_top_level(toplevels, workspace_toplevels,
                                       new_app_toplevel) IN
                /\ toplevels' = r[1]
                /\ workspace_toplevels' = r[2]
                /\ send_event("update_toplevel", ToplevelsUpdated(r[2]))
           ELSE /\ no_event("update_toplevel")
                /\ UNCHANGED <<toplevels, workspace_toplevels>>
    ELSE /\ no_event("update_toplevel")
         /\ UNCHANGED <<toplevels, workspace_toplevels>>

\* toplevel_closed that removes the toplevel and tells nobody.
toplevel_closed_silent(handle) ==
  LET tl == get_toplevel_from_handle(handle) IN
  IF tl # NoInfo
    THEN LET r == remove_toplevel(toplevels, workspace_toplevels, tl.handle) IN
         /\ toplevels' = r[1]
         /\ workspace_toplevels' = r[2]
         /\ no_event("toplevel_closed")
    ELSE /\ no_event("toplevel_closed")
         /\ UNCHANGED <<toplevels, workspace_toplevels>>

\* toplevel_closed that sends whatever remove_toplevel returned.
toplevel_closed_always_sends(handle) ==
  LET tl == get_toplevel_from_handle(handle) IN
  IF tl # NoInfo
    THEN LET r == remove_toplevel(toplevels, workspace_toplevels, tl.handle) IN
         /\ toplevels' = r[1]
         /\ workspace_toplevels' = r[2]
         /\ send_event("toplevel_closed", ToplevelsUpdated(r[2]))
    ELSE /\ no_event("toplevel_closed")
         /\ UNCHANGED <<toplevels, workspace_toplevels>>

\* toplevel_closed; ToplevelInfoState still holds the info of the handle.
toplevel_closed(handle) ==
  LET tl == get_toplevel_from_handle(handle) IN
  IF tl # NoInfo
    THEN LET r == remove_toplevel(toplevels, workspace_toplevels, tl.handle) IN
         /\ toplevels' = r[1]
         /\ workspace_toplevels' = r[2]
         /\ IF r[3]
              THEN send_event("toplevel_closed", ToplevelsUpdated(r[2]))
              ELSE no_event("toplevel_closed")
    ELSE /\ no_event("toplevel_closed")
         /\ UNCHANGED <<toplevels, workspace_toplevels>>

(* ---------------------------- OutputHandler ---------------------------- *)

\* new_output: the expected output after the handler.
new_output(output, name) ==
  IF name = configured_output THEN output ELSE expected_output

(* ---------------------- the dispatch thread's steps -------------------- *)

\* The workspace infos a batch may leave for handle h.
BatchInfos(h) ==
  IF wsInfo[h] = Removed THEN {Removed}
  ELSE IF wsInfo[h] = NoInfo THEN AllWsInfos \cup {NoInfo}
  ELSE AllWsInfos \cup {Removed}

\* WorkspaceStaged that recomputes the mirrored set at once.
WorkspaceStaged_runs_done(h, info) ==
  /\ info \in BatchInfos(h) \ {wsInfo[h]}
  /\ wsInfo' = [wsInfo EXCEPT ![h] = info]
  /\ UNCHANGED <<sender, configured_output, expected_output, toplevels,
                 outName, wsGroup, tlInfo, tlPhase>>
  /\ done

\* A workspace notification other than done (workspace created, renamed,
\* state changed, removed): WorkspaceState takes it; AppData has no callback
\* for it.  Whether workspace_info() shows the change before the batch is
\* complete is the library's business: here it does, and Done covers a
\* library that holds the change back until the completion signal.
WorkspaceStaged(h, info) ==
  /\ info \in BatchInfos(h) \ {wsInfo[h]}
  /\ wsInfo' = [wsInfo EXCEPT ![h] = info]
  /\ no_event("staged")
  /\ UNCHANGED <<appVars, outName, wsGroup, tlInfo, tlPhase>>

\* The batch-completion signal: WorkspaceState holds what the batch's
\* notifications left (info) and calls done().
Done(info) ==
  /\ \A h \in WsHandles : info[h] \in BatchInfos(h)
  /\ wsInfo' = info
  /\ UNCHANGED <<sender, configured_output, expected_output, toplevels,
                 outName, wsGroup, tlInfo, tlPhase>>
  /\ done

\* The compositor advertises a toplevel: ToplevelInfoState stores its info
\* and calls new_toplevel.
NewToplevel(h, info) ==
  /\ tlPhase[h] = "new"
  /\ tlPhase' = [tlPhase EXCEPT ![h] = "open"]
  /\ tlInfo' = [tlInfo EXCEPT ![h] = info]
  /\ UNCHANGED <<sender, configured_output, expected_output, workspaces,
                 outName, wsGroup, wsInfo>>
  /\ new_toplevel(h)

\* The compositor changes a toplevel: ToplevelInfoState stores the new info
\* and calls update_toplevel.
UpdateToplevel(h, info) ==
  /\ tlPhase[h] = "open"
  /\ tlInfo' = [tlInfo EXCEPT ![h] = info]
  /\ UNCHANGED <<sender, configured_output, expected_output, workspaces,
                 outName, wsGroup, wsInfo, tlPhase>>
  /\ update_toplevel(h)

\* The compositor closes a toplevel: ToplevelInfoState calls toplevel_closed
\* and then forgets the handle.
ToplevelClosed(h) ==
  /\ tlPhase[h] = "open"
  /\ toplevel_closed(h)
  /\ tlPhase' = [tlPhase EXCEPT ![h] = "closed"]
  /\ tlInfo' = [tlInfo EXCEPT ![h] = NoInfo]
  /\ UNCHANGED <<sender, configured_output, expected_output, workspaces,
                 outName, wsGroup, wsInfo>>

\* The compositor advertises an output: OutputState stores its info and
\* calls new_output.
NewOutput(o, name) ==
  /\ outName[o] = NotAdvertised
  /\ outName' = [outName EXCEPT ![o] = name]
  /\ expected_output' = new_output(o, name)
  /\ no_event("new_output")
  /\ UNCHANGED <<sender, configured_output, workspaces, toplevels,
                 workspace_toplevels, wsGroup, wsInfo, tlInfo, tlPhase>>

\* update_output: the info of an advertised output changed (its mode, its
\* position, ...), its name did not.
UpdateOutput(o) ==
  /\ outName[o] \notin {NotAdvertised, Destroyed}
  /\ no_event("update_output")
  /\ UNCHANGED <<appVars, envVars>>

\* output_destroyed that forgets the expected output when it is the one
\* destroyed.
OutputDestroyed_resets(o) ==
  /\ outName[o] \notin {NotAdvertised, Destroyed}
  /\ outName' = [outName EXCEPT ![o] = Destroyed]
  /\ expected_output' = IF expected_output = o THEN NoOutput
                                               ELSE expected_output
  /\ no_event("output_destroyed")
  /\ UNCHANGED <<sender, configured_output, workspaces, toplevels,
                 workspace_toplevels, wsGroup, wsInfo, tlInfo, tlPhase>>

\* The compositor destroys an output: output_destroyed runs, and the output
\* leaves OutputState and its workspace group.
OutputDestroyed(o) ==
  /\ outName[o] \notin {NotAdvertised, Destroyed}
  /\ outName' = [outName EXCEPT ![o] = Destroyed]
  /\ no_event("output_destroyed")
  /\ UNCHANGED <<appVars, wsGroup, wsInfo, tlInfo, tlPhase>>

\* A dispatch loop that ends at the first dispatch error: the thread
\* returns and AppData, with the Sender, is dropped.
DispatchFailed_exits ==
  /\ sender
  /\ sender' = FALSE
  /\ no_event("dispatch_error")
  /\ UNCHANGED <<configured_output, expected_output, workspaces, toplevels,
                 workspace_toplevels, envVars, histVars>>

\* blocking_dispatch returns Err: unwrap_or_else prints the error and yields
\* 0, and the loop goes round again.  No callback ran.
DispatchFailed ==
  /\ sender
  /\ no_event("dispatch_error")
  /\ UNCHANGED <<appVars, envVars, histVars>>

(* ------------------------------ consumer ------------------------------- *)

\* A stream that yields the oldest undelivered event and leaves it in the
\* channel.
Receive_peek ==
  /\ Len(chan) > 0
  /\ chan' = chan
  /\ UNCHANGED <<appVars, envVars, last, matchVars>>

\* The subscription stream yields the oldest undelivered event.
Receive ==
  /\ Len(chan) > 0
  /\ chan' = Tail(chan)
  /\ UNCHANGED <<appVars, envVars, last, matchVars>>

(* ------------------------ the application's view ---------------------- *)

\* Vec::sort_by(|a, b| a.name.cmp(&b.name)): a stable sort, which moves the
\* first of the elements of least name to the front and sorts the rest.
RECURSIVE sort_by_name(_)
sort_by_name(list) ==
  IF list = <<>> THEN <<>>
  ELSE LET i == CHOOSE i \in DOMAIN list :
                  /\ \A j \in DOMAIN list : list[i].name <= list[j].name
                  /\ \A j \in 1..(i - 1) : list[j].name # list[i].name
           rest == [j \in 1..(Len(list) - 1) |->
                      IF j < i THEN list[j] ELSE list[j + 1]]
       IN  <<list[i]>> \o sort_by_name(rest)

\* AppModel::update that keeps the first workspace list it was given.
AppModel_update_keeps_first(app_workspaces, message) ==
  IF message.kind = "WorkspacesChanged" /\ app_workspaces = <<>>
    THEN sort_by_name(message.list)
    ELSE app_workspaces

\* AppModel::update, as far as AppModel.workspaces goes: the list after the
\* message.
AppModel_update(app_workspaces, message) ==
  IF message.kind = "WorkspacesChanged"
    THEN sort_by_name(message.list)
    ELSE app_workspaces

\* AppModel.workspaces after the messages of hist, starting from the empty
\* list.
RECURSIVE AppModel_workspaces(_)
AppModel_workspaces(hist) ==
  IF hist = <<>> THEN <<>>
  ELSE AppModel_update(AppModel_workspaces(SubSeq(hist, 1, Len(hist) - 1)),
                       hist[Len(hist)])

(* ------------------------------- start --------------------------------- *)

\* The start-up loop of start(): the first output, in outputs() order (the
\* order of the proxies' numbers), that has info and matches the selector.
StartupCandidates(names, configured) ==
  {o \in Outputs : names[o] # NotAdvertised
                   /\ (configured = "" \/ names[o] = configured)}
StartupOutput(names, configured) ==
  IF StartupCandidates(names, configured) = {} THEN NoOutput
  ELSE CHOOSE o \in StartupCandidates(names, configured) :
         \A p \in StartupCandidates(names, configured) : o <= p

\* The state start() leaves when COSMIC_PANEL_OUTPUT is `configured` and
\* OutputState knows the outputs `names` at that time.
start(configured, names) ==
  /\ sender = TRUE
  /\ configured_output = configured
  /\ outName = names
  /\ expected_output = StartupOutput(outName, configured_output)
  /\ workspaces = <<>>
  /\ toplevels = <<>>
  /\ workspace_toplevels = <<>>
  /\ chan = <<>>
  /\ wsGroup \in GroupChoices
  /\ wsInfo = [h \in WsHandles |-> NoInfo]
  /\ tlInfo = [h \in TlHandles |-> NoInfo]
  /\ tlPhase = [h \in TlHandles |-> "new"]
  /\ last = [op |-> "start", ev |-> NoEvent, ok |-> FALSE]
  /\ produced = <<>>
  /\ received = <<>>
  /\ NoDesktopFiles

\* start() with any of the outputs "A" and "B" known at that time.
InitWith(configured) ==
  \E names \in {f \in [Outputs -> {"A", "B", NotAdvertised}] :
                  \A o \in Outputs : f[o] \in OutNames(o) \cup {NotAdvertised}} :
    start(configured, names)

\* The applet of the panel on monitor "A".
Init == InitWith("A")

\* The batches a completion signal can close.
Batches == [WsHandles -> WsInfos \cup {NoInfo, Removed}]

\* The consumer keeps up: it has taken every event before the next callback
\* of the dispatch thread runs.
KeepsUp == chan = <<>> /\ UNCHANGED histVars

\* The callbacks that leave AppData and the channel as they are (update_output,
\* output_destroyed, the notifications staged before done) are left out.
Next ==
  \/ \E info \in Batches : Done(info) /\ KeepsUp
  \/ \E h \in TlHandles, info \in TlInfosOne : NewToplevel(h, info) /\ KeepsUp
  \/ \E h \in TlHandles, info \in TlInfosOne :
       UpdateToplevel(h, info) /\ KeepsUp
  \/ \E h \in TlHandles : ToplevelClosed(h) /\ KeepsUp
  \/ \E o \in Outputs : \E name \in OutNames(o) : NewOutput(o, name) /\ KeepsUp
  \/ Receive /\ UNCHANGED histVars

Spec == Init /\ [][Next]_vars

(* ----------------------- a consumer that falls behind ----------------- *)

\* A callback runs whatever the channel holds; the history records the
\* send attempt it made, if any, until MaxProduced attempts are recorded.
\* Callbacks run on the thread start() spawns, which owns the Sender.
Record ==
  /\ sender
  /\ Len(produced) < MaxProduced
  /\ produced' = IF last'.ev # NoEvent
                   THEN Append(produced, [ev |-> last'.ev, ok |-> last'.ok])
                   ELSE produced
  /\ received' = received

\* The callbacks of SpecChan: batches, and the life of toplevel 1.
Produce ==
  \/ \E info \in Batches : Done(info) /\ Record
  \/ \E info \in TlInfosOne : NewToplevel(1, info) /\ Record
  \/ \E info \in TlInfosOne : UpdateToplevel(1, info) /\ Record
  \/ ToplevelClosed(1) /\ Record

\* The consumer takes the oldest undelivered event, whenever it gets to.
Consume ==
  /\ Receive
  /\ received' = Append(received, Head(chan))
  /\ produced' = produced

\* Both outputs are known at start-up and both workspaces are on output A.
InitChan ==
  /\ Init
  /\ outName = [o \in Outputs |-> CHOOSE n \in OutNames(o) : TRUE]
  /\ wsGroup = [h \in WsHandles |-> 1]

NextChan == Produce \/ Consume

SpecChan == InitChan /\ [][NextChan]_vars

(* ------------------- the two-workspace, one-window scenario ----------- *)

\* One batch that announces both workspaces, under different names.
ScenBatches == {info \in [WsHandles -> AllWsInfos] : info[1].name # info[2].name}

\* The first batch completes.
ScenDone ==
  \E info \in ScenBatches :
    /\ \A h \in WsHandles : wsInfo[h] = NoInfo
    /\ Done(info)
    /\ Record

\* Then one toplevel is created on one of the workspaces.
ScenNew ==
  \E h \in TlHandles, info \in TlInfosOne :
    /\ \A w \in WsHandles : HasWsInfo(w)
    /\ \A t \in TlHandles : tlPhase[t] = "new"
    /\ NewToplevel(h, info)
    /\ Record

\* Output "A" is known at start-up and carries both workspaces.
InitScen ==
  /\ \E names \in {f \in [Outputs -> {"A", "B", NotAdvertised}] :
                     f[1] = "A" /\ f[2] \in {"B", NotAdvertised}} :
       start("A", names)
  /\ wsGroup = [h \in WsHandles |-> 1]

NextScen == ScenDone \/ ScenNew \/ Consume

SpecScen == InitScen /\ [][NextScen]_vars

(* ------------- toplevels on no workspace, or on several --------------- *)

\* Toplevel 1 reports any set of workspaces; the consumer keeps up.
NextMember ==
  \/ \E info \in Batches : Done(info) /\ KeepsUp
  \/ \E info \in TlInfos : NewToplevel(1, info) /\ KeepsUp
  \/ \E info \in TlInfos : UpdateToplevel(1, info) /\ KeepsUp
  \/ ToplevelClosed(1) /\ KeepsUp
  \/ Receive /\ UNCHANGED histVars

SpecMember == InitChan /\ [][NextMember]_vars

(* --------------- workspace notifications between batches ------------- *)

\* Workspace notifications arrive one at a time and take effect in
\* WorkspaceState at once; the completion signal follows whenever it does.
\* Toplevel 1 lives alongside; the consumer keeps up.
NextStage ==
  \/ \E h \in WsHandles, info \in WsInfos \cup {Removed} :
       WorkspaceStaged(h, info) /\ KeepsUp
  \/ Done(wsInfo) /\ KeepsUp
  \/ \E info \in TlInfosOne : NewToplevel(1, info) /\ KeepsUp
  \/ ToplevelClosed(1) /\ KeepsUp
  \/ Receive /\ UNCHANGED histVars

SpecStage == InitChan /\ [][NextStage]_vars

(* -------------------- outputs that change and go away ---------------- *)

\* Outputs are advertised, updated and destroyed while batches complete and
\* toplevel 1 is created; the consumer keeps up.
NextGone ==
  \/ \E o \in Outputs : \E name \in OutNames(o) : NewOutput(o, name) /\ KeepsUp
  \/ \E o \in Outputs : UpdateOutput(o) /\ KeepsUp
  \/ \E o \in Outputs : OutputDestroyed(o) /\ KeepsUp
  \/ \E info \in Batches : Done(info) /\ KeepsUp
  \/ \E info \in TlInfosOne : NewToplevel(1, info) /\ KeepsUp
  \/ Receive /\ UNCHANGED histVars

SpecGone == Init /\ [][NextGone]_vars

(* ---------------------- dispatch errors in mid-session ---------------- *)

\* Batches complete and toplevel 1 is created while blocking_dispatch fails
\* now and then; the consumer takes events whenever it gets to.
NextFail ==
  \/ \E info \in Batches : Done(info) /\ Record
  \/ \E info \in TlInfosOne : NewToplevel(1, info) /\ Record
  \/ DispatchFailed
  \/ Consume

SpecFail == InitChan /\ [][NextFail]_vars

(* ----------------- any selector, any names of the outputs ------------- *)

\* The variable COSMIC_PANEL_OUTPUT is unset ("") or names the monitor "A".
Selectors == {"", "A"}
\* Either output may be the monitor "A" or the monitor "B" (the same
\* monitor shows up under a second proxy when it is plugged in again).
AnyOutNames == {"A", "B"}

InitOut ==
  \E c \in Selectors, names \in [Outputs -> AnyOutNames \cup {NotAdvertised}] :
    start(c, names)

NextOut ==
  \/ \E o \in Outputs, name \in AnyOutNames : NewOutput(o, name) /\ KeepsUp
  \/ \E o \in Outputs : UpdateOutput(o) /\ KeepsUp
  \/ \E info \in Batches : Done(info) /\ KeepsUp
  \/ Receive /\ UNCHANGED histVars

SpecOut == InitOut /\ [][NextOut]_vars

TypeOK ==
  /\ Len(chan) <= Capacity
  /\ expected_output \in Outputs \cup {NoOutput}

(* ------------------------- steps, for the claims ----------------------- *)

\* A batch-completion step.
DoneStep == \E info \in Batches : Done(info)

\* A toplevel notification (created, updated, closed).
ToplevelStep ==
  \/ \E h \in TlHandles, info \in TlInfos : NewToplevel(h, info)
  \/ \E h \in TlHandles, info \in TlInfos : UpdateToplevel(h, info)
  \/ \E h \in TlHandles : ToplevelClosed(h)

\* Toplevel t is in the Index bucket of workspace w.
InBucket(idx, t, w) == w \in DOMAIN idx /\ t \in DOMAIN idx[w]

\* Toplevel t of the flat map tls is in the bucket its record names.
InOwnBucket(tls, idx, t) == InBucket(idx, t, tls[t].ws_handle)

(* ---------------------------------- C1 --------------------------------- *)

\* C1: a batch completion whose recomputed workspace set equals, by value,
\* the mirrored set produces no event and leaves the mirrored state (the
\* workspace set, the flat map, the Index) and the channel unchanged.
C1_Suppression ==
  [][(DoneStep /\ done_new_state' = workspaces)
       => /\ last'.ev = NoEvent
          /\ chan' = chan
          /\ UNCHANGED <<workspaces, toplevels, workspace_toplevels>>]_vars

\* A batch completion has just found a non-empty workspace set unchanged.
C1_Witness ==
  /\ last.op = "done"
  /\ last.ev = NoEvent
  /\ workspaces # <<>>
  /\ workspaces = done_new_state

(* ---------------------------------- C2 --------------------------------- *)

\* C2: a toplevel notification (created, updated, closed) sends
\* ToplevelsUpdated only when the Index after the step differs from the
\* Index before it.
C2_Claim ==
  [][(ToplevelStep /\ last'.ev # NoEvent)
       => workspace_toplevels' # workspace_toplevels]_vars

(* ---------------------------------- C3 --------------------------------- *)

\* C3: every step that changes the workspace set or the Index attempts to
\* send the event that carries the new value of the changed projection.
C3_Claim ==
  [][/\ workspaces' # workspaces
          => /\ last'.ev.kind = "WorkspacesChanged"
             /\ last'.ev.list \in workspaces_vec(workspaces')
     /\ workspace_toplevels' # workspace_toplevels
          => last'.ev = ToplevelsUpdated(workspace_toplevels')]_vars

\* C3, amended: a change of the workspace set is followed by an attempt to
\* send WorkspacesChanged with the new sorted set; a change of the Index made
\* by a toplevel notification is followed by an attempt to send
\* ToplevelsUpdated with the new Index; the only other change of the Index is
\* the cascade of a batch completion, which drops the buckets of the
\* workspaces that left the set and is announced by WorkspacesChanged alone.
\* An attempt fails only when the channel is full.
C3_Amended ==
  [][/\ workspaces' # workspaces
          => /\ last'.ev.kind = "WorkspacesChanged"
             /\ last'.ev.list \in workspaces_vec(workspaces')
     /\ workspace_toplevels' # workspace_toplevels
          => \/ /\ ToplevelStep
                /\ last'.ev = ToplevelsUpdated(workspace_toplevels')
             \/ /\ DoneStep
                /\ last'.ev.kind = "WorkspacesChanged"
                /\ workspace_toplevels' =
                     Without(workspace_toplevels,
                             DOMAIN workspaces \ DOMAIN workspaces')
     /\ (workspaces' # workspaces
           \/ workspace_toplevels' # workspace_toplevels)
          => /\ last'.ok = (Len(chan) < Capacity)
             /\ chan' = IF last'.ok THEN Append(chan, last'.ev) ELSE chan]_vars

\* A batch completion has just cascaded a bucket away: a toplevel of the flat
\* map names a workspace that has no bucket and is not in the set announced.
C3_Witness ==
  /\ last.op = "done"
  /\ last.ev.kind = "WorkspacesChanged"
  /\ \E t \in DOMAIN toplevels :
       /\ toplevels[t].ws_handle \notin DOMAIN workspace_toplevels
       /\ toplevels[t].ws_handle \notin DOMAIN workspaces

(* ---------------------------------- C4 --------------------------------- *)

\* C4: the Index never has a key for a workspace handle that is absent from
\* the mirrored workspace set.
C4_Claim ==
  \A w \in DOMAIN workspace_toplevels : w \in DOMAIN workspaces

(* ---------------------------------- C5 --------------------------------- *)

\* C5: every toplevel in a bucket of the Index is in the flat map (with the
\* record the bucket holds, under the workspace the record names), and a
\* step that removes a toplevel from the flat map leaves it in no bucket.
C5_IndexInFlat ==
  /\ [](\A w \in DOMAIN workspace_toplevels :
          \A t \in DOMAIN workspace_toplevels[w] :
            /\ t \in DOMAIN toplevels
            /\ toplevels[t] = workspace_toplevels[w][t]
            /\ toplevels[t].ws_handle = w)
  /\ [][\A t \in DOMAIN toplevels :
          t \notin DOMAIN toplevels'
            => \A w \in DOMAIN workspace_toplevels' :
                 t \notin DOMAIN workspace_toplevels'[w]]_vars

\* A toplevel has just been closed while another one stays in its bucket.
C5_Witness ==
  /\ last.op = "toplevel_closed"
  /\ last.ev.kind = "ToplevelsUpdated"
  /\ \E t \in TlHandles :
       /\ tlPhase[t] = "closed"
       /\ t \notin DOMAIN toplevels
  /\ \E t \in DOMAIN toplevels : InOwnBucket(toplevels, workspace_toplevels, t)

(* ---------------------------------- C6 --------------------------------- *)

OnlyOnB(w) ==
  \A g \in Groups :
    w \in group_workspaces(g)
      => /\ group_outputs(g) # {}
         /\ \A o \in group_outputs(g) : outName[o] = "B"

\* C7: with the selector "A", no WorkspacesChanged carries a workspace that
\* belongs only to groups whose outputs are "B".  (The output names and the
\* groups are as they were when the event in `last` was sent: the steps that
\* change them reset `last`.)
C7_Claim ==
  last.ev.kind = "WorkspacesChanged"
    => \A i \in DOMAIN last.ev.list : ~OnlyOnB(last.ev.list[i].handle)

\* C7, amended: with the selector "A", once an output named "A" has been
\* seen (the expected output is resolved), no WorkspacesChanged carries a
\* workspace that belongs only to groups whose outputs are "B"; every
\* workspace it carries is in a group that contains the expected output.
\* Until then every group that has an output is kept.
C7_Amended ==
  (last.op = "done" /\ last.ev.kind = "WorkspacesChanged")
    => IF expected_output # NoOutput
         THEN \A i \in DOMAIN last.ev.list :
                /\ ~OnlyOnB(last.ev.list[i].handle)
                /\ expected_output
                     \in group_outputs(wsGroup[last.ev.list[i].handle])
         ELSE {last.ev.list[i].handle : i \in DOMAIN last.ev.list}
                = {w \in WsHandles :
                     HasWsInfo(w) /\ group_outputs(wsGroup[w]) # {}}

\* A batch completion with "A" resolved has just announced a non-empty set
\* while a workspace on "B" alone exists.
C7_Witness ==
  /\ last.op = "done"
  /\ last.ev.kind = "WorkspacesChanged"
  /\ last.ev.list # <<>>
  /\ expected_output # NoOutput
  /\ \E w \in WsHandles : HasWsInfo(w) /\ OnlyOnB(w)

(* ---------------------------------- C8 --------------------------------- *)

\* C8: the order of the list carried by WorkspacesChanged is determined by
\* the set of workspaces alone: it is the only order done() can produce for
\* the mirrored set, also when two workspaces share a name.
C8_Claim ==
  last.ev.kind = "WorkspacesChanged"
    => \A vec \in workspaces_vec(workspaces) : vec = last.ev.list

(* ---------------------------------- C9 --------------------------------- *)

\* C9: the channel never holds more than its capacity of undelivered
\* events, and a send attempt made while it holds that many drops the event:
\* the channel is unchanged, the attempt is recorded as refused, and the
\* callback has run to its end (its step is taken); a full channel never
\* keeps the dispatch thread from running its next callback.
C9_Backpressure ==
  /\ [](Len(chan) <= Capacity)
  /\ []((Len(chan) = Capacity /\ Len(produced) < MaxProduced)
          => ENABLED Produce)
  /\ [][(Len(chan) = Capacity /\ produced' # produced)
          => /\ chan' = chan
             /\ ~last'.ok
             /\ produced' = Append(produced, [ev |-> last'.ev, ok |-> FALSE])
             /\ received' = received]_vars

\* A batch completion has just had its event dropped by a full channel, and
\* has mirrored the new workspace set all the same.
C9_Witness ==
  /\ Len(chan) = Capacity
  /\ last.op = "done"
  /\ last.ev.kind = "WorkspacesChanged"
  /\ ~last.ok
  /\ last.ev.list \in workspaces_vec(workspaces)
  /\ produced[Len(produced)] = [ev |-> last.ev, ok |-> FALSE]

(* ---------------------------------- C10 -------------------------------- *)

\* The events of the send attempts the channel accepted, in order.
Accepted(hist) ==
  LET acc == SelectSeq(hist, LAMBDA p : p.ok)
  IN [i \in DOMAIN acc |-> acc[i].ev]

\* s is a subsequence of t.
RECURSIVE IsSubseq(_, _)
IsSubseq(s, t) ==
  IF s = <<>> THEN TRUE
  ELSE IF t = <<>> THEN FALSE
  ELSE IF Head(s) = Head(t) THEN IsSubseq(Tail(s), Tail(t))
  ELSE IsSubseq(s, Tail(t))

\* C10: what the consumer has received, followed by what is still
\* undelivered, is exactly the accepted send attempts in the order they were
\* made: the received events are a subsequence of the produced ones, in the
\* same order, each delivered once.
C10_Fifo ==
  /\ received \o chan = Accepted(produced)
  /\ IsSubseq(received, [i \in DOMAIN produced |-> produced[i].ev])

\* The consumer has received two events after an earlier one was dropped.
C10_Witness ==
  /\ Len(received) >= 2
  /\ \E i \in DOMAIN produced :
       /\ ~produced[i].ok
       /\ i < Len(produced)
       /\ produced[Len(produced)].ok
       /\ received[Len(received)] = produced[Len(produced)].ev

(* ---------------------------------- C11 -------------------------------- *)

\* The scenario has run: the toplevel t is open, on workspace w.
ScenOpen(t, w) == tlPhase[t] = "open" /\ tlInfo[t].workspace = <<w>>

\* The one WorkspacesChanged of the scenario: both workspaces, ascending by
\* name, accepted by the channel.
ScenFirstEvent(e) ==
  /\ e.ok
  /\ e.ev.kind = "WorkspacesChanged"
  /\ Len(e.ev.list) = 2
  /\ e.ev.list[1].name < e.ev.list[2].name
  /\ \A i \in 1..2 :
       e.ev.list[i] = AppWorkspace_new(e.ev.list[i].handle,
                                       wsInfo[e.ev.list[i].handle])

\* C11: after the scenario the producer has made exactly two send attempts:
\* WorkspacesChanged with the two workspaces in name order, then one toplevel
\* event whose Index maps the toplevel's workspace to the collection holding
\* only the toplevel and maps the other workspace to an empty collection.
C11_Claim ==
  \A t \in TlHandles, w \in WsHandles :
    ScenOpen(t, w)
      => /\ Len(produced) = 2
         /\ ScenFirstEvent(produced[1])
         /\ produced[2] =
              [ev |-> ToplevelsUpdated(
                        [x \in WsHandles |->
                           IF x = w THEN (t :> toplevels[t]) ELSE <<>>]),
               ok |-> TRUE]

\* C11, amended: ... then one ToplevelsUpdated whose Index maps the
\* toplevel's workspace to the collection holding only the toplevel (app id
\* "firefox") and has no entry for the other workspace: a bucket exists only
\* once a toplevel has been put on its workspace.
C11_Amended ==
  \A t \in TlHandles, w \in WsHandles :
    ScenOpen(t, w)
      => /\ Len(produced) = 2
         /\ ScenFirstEvent(produced[1])
         /\ produced[2] =
              [ev |-> ToplevelsUpdated((w :> (t :> toplevels[t]))), ok |-> TRUE]
         /\ toplevels[t].app_id = "firefox"
         /\ toplevels[t].ws_handle = w
         /\ received \o chan = <<produced[1].ev, produced[2].ev>>

\* The scenario as written: "1" active, "2" inactive, firefox on "2".
C11_Witness ==
  /\ \E t \in TlHandles : ScenOpen(t, 2)
  /\ wsInfo[1] = [name |-> 1, is_active |-> TRUE]
  /\ wsInfo[2] = [name |-> 2, is_active |-> FALSE]
  /\ Len(received) = 2

(* ---------------------------------- C12 -------------------------------- *)

\* The Index idx2 holds everything idx1 holds, except what it holds for t.
KeepsOthers(idx1, idx2, t) ==
  \A w \in DOMAIN idx1 :
    /\ w \in DOMAIN idx2
    /\ \A u \in (DOMAIN idx1[w]) \ {t} :
         u \in DOMAIN idx2[w] /\ idx2[w][u] = idx1[w][u]

\* C12: a toplevel-created notification whose handle resolves puts the
\* resolved record into the flat map and into the bucket of its workspace,
\* keeps every other entry, and makes one send attempt whose payload is the
\* whole Index as it is after the insertion.
C12_Created ==
  [][\A h \in TlHandles, info \in TlInfos :
       (NewToplevel(h, info) /\ get_toplevel_from_handle(h)' # NoInfo)
         => /\ toplevels' = Insert(toplevels, h, get_toplevel_from_handle(h)')
            /\ InOwnBucket(toplevels', workspace_toplevels', h)
            /\ workspace_toplevels'[toplevels'[h].ws_handle][h] = toplevels'[h]
            /\ KeepsOthers(workspace_toplevels, workspace_toplevels', h)
            /\ last'.ev = ToplevelsUpdated(workspace_toplevels')
            /\ chan' = IF Len(chan) < Capacity
                         THEN Append(chan, last'.ev) ELSE chan]_vars

\* The second toplevel has just been created, on another workspace than the
\* first: the event carries both buckets.
C12_Witness ==
  /\ last.op = "new_toplevel"
  /\ last.ev = ToplevelsUpdated(workspace_toplevels)
  /\ DOMAIN toplevels = TlHandles
  /\ \A t \in TlHandles : InOwnBucket(toplevels, workspace_toplevels, t)
  /\ toplevels[1].ws_handle # toplevels[2].ws_handle

(* ---------------------------------- C13 -------------------------------- *)

\* Toplevel t is open and the only one the compositor has advertised so far.
OnlyOpen(t) ==
  /\ tlPhase[t] = "open"
  /\ \A u \in TlHandles \ {t} : tlPhase[u] = "new"

\* C13: a toplevel-updated notification whose newly resolved record equals
\* the record stored for the toplevel in the bucket of the same workspace
\* makes no send attempt and leaves the flat map and the Index unchanged.
C13_UpdateIdentical ==
  [][\A h \in TlHandles, info \in TlInfos :
       (/\ UpdateToplevel(h, info)
        /\ get_toplevel_from_handle(h)' # NoInfo
        /\ InBucket(workspace_toplevels, h,
                    get_toplevel_from_handle(h)'.ws_handle)
        /\ workspace_toplevels[get_toplevel_from_handle(h)'.ws_handle][h]
             = get_toplevel_from_handle(h)')
         => /\ last'.ev = NoEvent
            /\ chan' = chan
            /\ UNCHANGED <<toplevels, workspace_toplevels>>]_vars

\* The only open toplevel has just been updated with the record its bucket
\* already holds, and nothing was sent.
C13_Witness ==
  /\ last.op = "update_toplevel"
  /\ last.ev = NoEvent
  /\ \E t \in TlHandles :
       /\ OnlyOpen(t)
       /\ t \in DOMAIN toplevels
       /\ InOwnBucket(toplevels, workspace_toplevels, t)
       /\ get_toplevel_from_handle(t) = toplevels[t]

(* ---------------------------------- C14 -------------------------------- *)

\* C14: a toplevel-updated notification whose resolved record differs from
\* the stored one puts the new record into the flat map and into the bucket
\* of its workspace and attempts to send the new Index; the toplevel is then
\* in no other bucket, so a move from W1 to W2 leaves no entry under W1.
C14_UpdateMoved ==
  [][\A h \in TlHandles, info \in TlInfos :
       (/\ UpdateToplevel(h, info)
        /\ get_toplevel_from_handle(h)' # NoInfo
        /\ h \in DOMAIN toplevels
        /\ toplevels[h] # get_toplevel_from_handle(h)')
         => /\ toplevels' = Insert(toplevels, h, get_toplevel_from_handle(h)')
            /\ InOwnBucket(toplevels', workspace_toplevels', h)
            /\ workspace_toplevels'[toplevels'[h].ws_handle][h] = toplevels'[h]
            /\ \A w \in DOMAIN workspace_toplevels' :
                 w # toplevels'[h].ws_handle
                   => h \notin DOMAIN workspace_toplevels'[w]
            /\ KeepsOthers(workspace_toplevels, workspace_toplevels', h)
            /\ last'.ev = ToplevelsUpdated(workspace_toplevels')]_vars

\* The only open toplevel has just moved: it is in the bucket of its new
\* workspace and the bucket of the other workspace is left empty.
C14_Witness ==
  /\ last.op = "update_toplevel"
  /\ last.ev = ToplevelsUpdated(workspace_toplevels)
  /\ \E t \in TlHandles :
       /\ OnlyOpen(t)
       /\ DOMAIN toplevels = {t}
       /\ InOwnBucket(toplevels, workspace_toplevels, t)
       /\ \E w \in DOMAIN workspace_toplevels :
            w # toplevels[t].ws_handle /\ workspace_toplevels[w] = <<>>

(* ---------------------------------- C15 -------------------------------- *)

\* C15: a toplevel-closed notification for a handle that is in the flat map
\* removes it from the flat map and from its bucket, attempts to send the
\* new Index, and leaves every bucket in place (empty, when the toplevel was
\* the last one there).
C15_Claim ==
  [][\A h \in TlHandles :
       (ToplevelClosed(h) /\ h \in DOMAIN toplevels)
         => /\ h \notin DOMAIN toplevels'
            /\ \A w \in DOMAIN workspace_toplevels' :
                 h \notin DOMAIN workspace_toplevels'[w]
            /\ DOMAIN workspace_toplevels' = DOMAIN workspace_toplevels
            /\ last'.ev = ToplevelsUpdated(workspace_toplevels')]_vars

(* ---------------------------------- C16 -------------------------------- *)

\* C16: a toplevel-closed notification for a handle that is not in the flat
\* map makes no send attempt and leaves the flat map and the Index unchanged.
C16_ClosedAbsent ==
  [][\A h \in TlHandles :
       (ToplevelClosed(h) /\ h \notin DOMAIN toplevels)
         => /\ last'.ev = NoEvent
            /\ chan' = chan
            /\ UNCHANGED <<toplevels, workspace_toplevels>>]_vars

\* A toplevel that was never added has just been closed: no output was ever
\* advertised, so no bucket was ever cascaded away, and there is no bucket.
C16_Witness ==
  /\ last.op = "toplevel_closed"
  /\ last.ev = NoEvent
  /\ \E t \in TlHandles : tlPhase[t] = "closed"
  /\ \A o \in Outputs : outName[o] = NotAdvertised
  /\ toplevels = <<>>
  /\ workspace_toplevels = <<>>

(* ---------------------------------- C17 -------------------------------- *)

\* C17: a created toplevel that reports no workspace is kept: it is put
\* into the flat map and into a bucket of the Index, and an event is sent.
C17_Claim ==
  [][\A h \in TlHandles, info \in TlInfos :
       (NewToplevel(h, info) /\ info.workspace = <<>>)
         => /\ h \in DOMAIN toplevels'
            /\ \E w \in DOMAIN workspace_toplevels' :
                 h \in DOMAIN workspace_toplevels'[w]
            /\ last'.ev.kind = "ToplevelsUpdated"]_vars

(* ---------------------------------- C18 -------------------------------- *)

\* C18: while no expected output is resolved, an advertised output becomes
\* the expected output if its name equals the configured target or if no
\* target is configured; and start() resolves the first such output that is
\* already known.
C18_Claim ==
  /\ [](last.op = "start"
          => expected_output = StartupOutput(outName, configured_output))
  /\ [][\A o \in Outputs, name \in AnyOutNames :
          (/\ NewOutput(o, name)
           /\ expected_output = NoOutput
           /\ (configured_output = "" \/ name = configured_output))
            => expected_output' = o]_vars

(* ---------------------------------- C19 -------------------------------- *)

\* C19: once the expected output is resolved, no step changes it.
C19_Claim ==
  [][expected_output # NoOutput => expected_output' = expected_output]_vars

(* ---------------------------------- C20 -------------------------------- *)

\* What the consumer's poll returns once the stream has ended.
EndOfStream == [kind |-> "EndOfStream"]

\* The state workspace_subscription() leaves when connect_to_env() fails:
\* start() never runs, nothing is mirrored, and the Receiver of a fresh
\* channel is returned while its Sender (alive = FALSE) is dropped.
Unconnected(alive) ==
  /\ sender = alive
  /\ configured_output = ""
  /\ expected_output = NoOutput
  /\ workspaces = <<>>
  /\ toplevels = <<>>
  /\ workspace_toplevels = <<>>
  /\ chan = <<>>
  /\ outName = [o \in Outputs |-> NotAdvertised]
  /\ wsGroup = [h \in WsHandles |-> 1]
  /\ wsInfo = [h \in WsHandles |-> NoInfo]
  /\ tlInfo = [h \in TlHandles |-> NoInfo]
  /\ tlPhase = [h \in TlHandles |-> "new"]
  /\ last = [op |-> "connect_failed", ev |-> NoEvent, ok |-> FALSE]
  /\ produced = <<>>
  /\ received = <<>>
  /\ NoDesktopFiles

\* The failure path with the Sender kept alive.
connect_failed_keeps_sender == Unconnected(TRUE)

\* Err(_) => mpsc::channel(1).1
connect_failed == Unconnected(FALSE)

\* The consumer polls an empty channel whose Sender is gone: the stream
\* ends, once.
StreamEnd ==
  /\ ~sender
  /\ chan = <<>>
  /\ IF received = <<>> THEN TRUE
                        ELSE received[Len(received)].kind # "EndOfStream"
  /\ received' = Append(received, EndOfStream)
  /\ UNCHANGED <<appVars, chan, outName, wsGroup, wsInfo, tlInfo, tlPhase,
                 last, produced, matchVars>>

\* workspace_subscription(): the connection succeeds and start() runs, or
\* it fails.
InitConn == InitChan \/ connect_failed

NextConn == Produce \/ Consume \/ StreamEnd

SpecConn == InitConn /\ [][NextConn]_vars

\* C20: after a failed connection no event is ever produced, queued or
\* received; the consumer receives nothing but the end of the stream, and
\* the end of the stream is what its next poll returns.
C20_ConnectFailure ==
  /\ [](last.op = "connect_failed"
          => /\ ~sender
             /\ produced = <<>>
             /\ chan = <<>>
             /\ received \in {<<>>, <<EndOfStream>>})
  /\ [](last.op = "connect_failed" /\ received = <<>> => ENABLED StreamEnd)
  /\ [][last.op = "connect_failed" => last'.op = "connect_failed"]_vars

\* The consumer of a failed connection has received the end of the stream.
C20_Witness ==
  /\ last.op = "connect_failed"
  /\ received = <<EndOfStream>>

(* ---------------------------------- C21 -------------------------------- *)

\* C21: when a batch completion sends WorkspacesChanged, the Index holds, at
\* the moment of the send, no bucket for a workspace that was in the old
\* set and is not in the new one; and the Index the step leaves is the one
\* it had at the send.
C21_CascadeBeforeSend ==
  /\ []((last.op = "done" /\ last.ev.kind = "WorkspacesChanged")
          => /\ \A w \in last.removed_keys : w \notin DOMAIN last.index_at_send
             /\ last.index_at_send = workspace_toplevels)
  /\ [][(DoneStep /\ last'.ev.kind = "WorkspacesChanged")
          => last'.removed_keys = DOMAIN workspaces \ DOMAIN workspaces']_vars

\* A batch completion has just sent WorkspacesChanged after removing a
\* workspace whose bucket held a toplevel that is still in the flat map.
C21_Witness ==
  /\ last.op = "done"
  /\ last.ev.kind = "WorkspacesChanged"
  /\ \E t \in DOMAIN toplevels :
       /\ toplevels[t].ws_handle \in last.removed_keys
       /\ toplevels[t].ws_handle \notin DOMAIN last.index_at_send

(* ---------------------------------- C22 -------------------------------- *)

\* A workspace notification other than the completion signal.
StagedStep ==
  \E h \in WsHandles, info \in WsInfos \cup {Removed} : WorkspaceStaged(h, info)

\* C22: a workspace notification other than the completion signal sends
\* nothing and leaves the mirrored workspace set (and the flat map and the
\* Index) as it is; every step that attempts to send WorkspacesChanged is a
\* batch completion.
C22_Staging ==
  /\ [][StagedStep
          => /\ last'.ev = NoEvent
             /\ chan' = chan
             /\ UNCHANGED <<workspaces, toplevels, workspace_toplevels>>]_vars
  /\ [][(last'.ev.kind = "WorkspacesChanged" /\ ~Receive) => Done(wsInfo')]_vars

\* A rename has just been staged for a mirrored workspace: WorkspaceState
\* holds the new name, the mirrored set the old one.
C22_Witness ==
  /\ last.op = "staged"
  /\ \E h \in DOMAIN workspaces :
       /\ HasWsInfo(h)
       /\ workspaces[h].name # wsInfo[h].name

(* ---------------------------------- C23 -------------------------------- *)

\* C23: a toplevel-created or toplevel-updated notification none of whose
\* reported workspaces resolves sends nothing and leaves the flat map, the
\* Index and the workspace set as they are; and after a notification that
\* was ignored the dispatch thread can run its next callback.
C23_Unresolvable ==
  /\ [][\A h \in TlHandles, info \in TlInfos :
          (/\ NewToplevel(h, info) \/ UpdateToplevel(h, info)
           /\ ResolvedWs(info.workspace) = <<>>)
            => /\ last'.ev = NoEvent
               /\ chan' = chan
               /\ UNCHANGED <<workspaces, toplevels, workspace_toplevels>>]_vars
  /\ []((last.op \in {"new_toplevel", "update_toplevel"} /\ last.ev = NoEvent)
          => ENABLED (\E info \in Batches : Done(info) /\ KeepsUp))

\* A created toplevel that reports workspaces, none of which resolves, has
\* just been ignored.
C23_Witness ==
  /\ last.op = "new_toplevel"
  /\ last.ev = NoEvent
  /\ \E h \in TlHandles :
       /\ tlPhase[h] = "open"
       /\ Len(tlInfo[h].workspace) > 0
       /\ ResolvedWs(tlInfo[h].workspace) = <<>>
       /\ h \notin DOMAIN toplevels

(* ---------------------------------- C24 -------------------------------- *)

\* C24: an output-updated or output-destroyed notification leaves the
\* expected output, the workspace set, the flat map, the Index and the
\* channel as they are and sends nothing, also when the output is the
\* expected output.
C24_OutputNoOps ==
  [][\A o \in Outputs :
       (UpdateOutput(o) \/ OutputDestroyed(o))
         => /\ UNCHANGED <<expected_output, workspaces, toplevels,
                           workspace_toplevels>>
            /\ chan' = chan
            /\ last'.ev = NoEvent]_vars

\* The expected output has just been destroyed, and is still the expected
\* output, while workspaces and a toplevel are mirrored.
C24_Witness ==
  /\ last.op = "output_destroyed"
  /\ expected_output # NoOutput
  /\ outName[expected_output] = Destroyed
  /\ workspaces # <<>>
  /\ toplevels # <<>>

(* ---------------------------------- C25 -------------------------------- *)

\* The groups the batch recomputation is said to keep: those that contain
\* the expected output, or all of them when no expected output is resolved.
KeptGroup(g) ==
  IF expected_output = NoOutput THEN TRUE
  ELSE expected_output \in group_outputs(g)

\* C25: after a batch completion that sends WorkspacesChanged, the mirrored
\* workspace set and the list sent hold exactly the workspaces that resolve
\* and are listed in a kept group, each with its resolved record.  (The
\* outputs, groups and infos are as they were when the event in `last` was
\* sent: the steps that change them reset `last`.)
C25_Claim ==
  (last.op = "done" /\ last.ev.kind = "WorkspacesChanged")
    => /\ DOMAIN workspaces =
            {w \in WsHandles : HasWsInfo(w) /\ KeptGroup(wsGroup[w])}
       /\ \A w \in DOMAIN workspaces :
            workspaces[w] = get_workspace_from_handle(w)
       /\ {last.ev.list[i] : i \in DOMAIN last.ev.list}
            = {workspaces[w] : w \in DOMAIN workspaces}

(* ---------------------------------- C26 -------------------------------- *)

\* C26: a failed blocking dispatch changes nothing of AppData (the Sender
\* included), nothing of the channel and sends nothing; after it the channel
\* still has its Sender, the stream has not ended, and the loop dispatches
\* again: the next dispatch can fail again or run a callback.
C26_DispatchError ==
  /\ [][DispatchFailed
          => /\ UNCHANGED <<appVars, envVars>>
             /\ chan' = chan
             /\ last'.ev = NoEvent]_vars
  /\ [](last.op = "dispatch_error"
          => /\ sender
             /\ ~ENABLED StreamEnd
             /\ ENABLED DispatchFailed
             /\ Len(produced) < MaxProduced
                  => ENABLED (\E info \in Batches : Done(info) /\ Record))

\* A dispatch has just failed in mid-session: workspaces are mirrored and
\* an event is still undelivered.
C26_Witness ==
  /\ last.op = "dispatch_error"
  /\ workspaces # <<>>
  /\ chan # <<>>

(* ---------------------------------- C27 -------------------------------- *)

\* The matcher on its own: entries are indexed and app ids looked up; no
\* compositor is connected.
InitMatch == connect_failed

NextMatch ==
  \/ \E entry \in DesktopEntries : IndexEntry(entry)
  \/ \E app_id \in LookupIds : FindDesktopFile(app_id)

SpecMatch == InitMatch /\ [][NextMatch]_vars

\* The first of the scanned entries whose index is in I, NoInfo if I is
\* empty.
FirstScanned(I) ==
  IF I = {} THEN NoInfo
  ELSE scanned[CHOOSE i \in I : \A j \in I : i <= j]

\* C27: for every sequence of indexed entries, find_desktop_file(app_id)
\* returns the entry indexed under the exact filename app_id (the first
\* entry scanned with that file stem) if there is one; otherwise the entry
\* indexed under the StartupWMClass app_id (the first scanned with that
\* class) if there is one; otherwise the entry indexed under the lowercased
\* filename lowercase(app_id) (the first scanned whose lowercased stem is
\* that) if there is one; otherwise none.
C27_Precedence ==
  found # NoInfo
    => LET ByName == {i \in DOMAIN scanned :
                        scanned[i].path.file_stem = found.app_id}
           ByClass == {i \in DOMAIN scanned :
                         scanned[i].startup_wm_class = found.app_id}
           ByLower == {i \in DOMAIN scanned :
                         to_lowercase(scanned[i].path.file_stem)
                           = to_lowercase(found.app_id)}
       IN  found.entry =
             IF ByName # {} THEN FirstScanned(ByName)
             ELSE IF ByClass # {} THEN FirstScanned(ByClass)
             ELSE FirstScanned(ByLower)

\* A lookup has just been answered from the StartupWMClass index although
\* an entry scanned earlier matches the app id by its lowercased filename.
C27_Witness ==
  /\ found # NoInfo
  /\ found.entry # NoInfo
  /\ found.entry.startup_wm_class = found.app_id
  /\ found.entry.path.file_stem # found.app_id
  /\ found.entry = find_desktop_file(matcher, found.app_id)
  /\ \E i \in DOMAIN scanned :
       /\ to_lowercase(scanned[i].path.file_stem) = to_lowercase(found.app_id)
       /\ scanned[i] # found.entry
       /\ \E j \in DOMAIN scanned : i < j /\ scanned[j] = found.entry

(* ---------------------------------- C28 -------------------------------- *)

\* C28: a created or updated toplevel that reports several workspaces, at
\* least one of which resolves, is recorded under the last handle, in the
\* order reported, that resolves, and is in the bucket of that workspace
\* and in no other.
C28_Claim ==
  [][\A h \in TlHandles, info \in TlInfos :
       (/\ NewToplevel(h, info) \/ UpdateToplevel(h, info)
        /\ Len(info.reported) > 1
        /\ ResolvedWs(info.reported) # <<>>)
         => LET ws == ResolvedWs(info.reported)
                authoritative == ws[Len(ws)] IN
            /\ h \in DOMAIN toplevels'
            /\ toplevels'[h].ws_handle = authoritative
            /\ \A w \in WsHandles :
                 InBucket(workspace_toplevels', h, w) <=> w = authoritative]_vars

(* ---------------------------------- C29 -------------------------------- *)

\* The keys of the buckets of the Index that hold toplevel t.
BucketsOf(t) ==
  {w \in DOMAIN workspace_toplevels : t \in DOMAIN workspace_toplevels[w]}

\* C29: every toplevel handle is in at most one bucket of the Index; the key
\* of that bucket is the workspace handle of the record the bucket holds,
\* and that record is the one the flat map holds for the handle.
C29_SingleBucket ==
  \A t \in TlHandles :
    /\ Cardinality(BucketsOf(t)) <= 1
    /\ \A w \in BucketsOf(t) :
         /\ workspace_toplevels[w][t].ws_handle = w
         /\ t \in DOMAIN toplevels
         /\ workspace_toplevels[w][t] = toplevels[t]

\* A toplevel has just moved into the bucket that holds the other toplevel,
\* leaving its old bucket empty.
C29_Witness ==
  /\ last.op = "update_toplevel"
  /\ last.ev.kind = "ToplevelsUpdated"
  /\ DOMAIN toplevels = TlHandles
  /\ \E w \in DOMAIN workspace_toplevels :
       /\ DOMAIN workspace_toplevels[w] = TlHandles
       /\ \E v \in DOMAIN workspace_toplevels \ {w} :
            workspace_toplevels[v] = <<>>

(* ---------------------------------- C30 -------------------------------- *)

\* The send attempts that carried WorkspacesChanged, in order.
WorkspacesAttempts ==
  SelectSeq(produced, LAMBDA p : p.ev.kind = "WorkspacesChanged")

\* The last WorkspacesChanged produced, if any, was accepted by the channel.
LastWorkspacesAccepted ==
  WorkspacesAttempts = <<>> \/ WorkspacesAttempts[Len(WorkspacesAttempts)].ok

\* No WorkspacesChanged is still undelivered.
NoWorkspacesPending ==
  \A i \in DOMAIN chan : chan[i].kind # "WorkspacesChanged"

\* C30: whenever the last WorkspacesChanged produced was accepted by the
\* channel and the consumer has taken every WorkspacesChanged out of the
\* channel (in particular when the channel is empty), the consumer's
\* workspace list holds exactly the mirrored workspaces in an order sorted
\* by name; a view made stale by a dropped event is current again as soon
\* as the next WorkspacesChanged has landed.
C30_ConsumerWorkspaces ==
  (LastWorkspacesAccepted /\ NoWorkspacesPending)
    => AppModel_workspaces(received) \in workspaces_vec(workspaces)

\* The consumer's view was stale after a dropped WorkspacesChanged and is
\* current again: a later WorkspacesChanged was accepted and received, and
\* the channel is empty.
C30_Witness ==
  /\ chan = <<>>
  /\ workspaces # <<>>
  /\ Len(WorkspacesAttempts) >= 2
  /\ \E i \in 1..(Len(WorkspacesAttempts) - 1) : ~WorkspacesAttempts[i].ok
  /\ WorkspacesAttempts[Len(WorkspacesAttempts)].ok
  /\ received[Len(received)] = WorkspacesAttempts[Len(WorkspacesAttempts)].ev
  /\ AppModel_workspaces(received) \in workspaces_vec(workspaces)

(* ---------------------------------- C31 -------------------------------- *)

\* C31: a batch completion whose WorkspacesChanged the full channel drops
\* mirrors the new workspace set all the same; while the last
\* WorkspacesChanged produced is a dropped one, a batch completion that
\* resolves to the mirrored set attempts no send; and every attempt to send
\* WorkspacesChanged is made by a step that changes the mirrored set, so the
\* dropped change is not sent again before the set changes.
C31_NoRetransmission ==
  /\ [][(produced' # produced
          /\ last'.ev.kind = "WorkspacesChanged" /\ ~last'.ok)
          => /\ chan' = chan
             /\ workspaces' = done_new_state'
             /\ workspaces' # workspaces
             /\ last'.ev.list \in workspaces_vec(workspaces')]_vars
  /\ [][(DoneStep /\ ~LastWorkspacesAccepted
          /\ done_new_state' = workspaces)
          => /\ last'.ev = NoEvent
             /\ produced' = produced
             /\ chan' = chan]_vars
  /\ [][(produced' # produced /\ last'.ev.kind = "WorkspacesChanged")
          => workspaces' # workspaces]_vars

\* After a WorkspacesChanged was dropped and the consumer has emptied the
\* channel, a batch completion has just found the set unchanged and sent
\* nothing: the consumer's list is not the mirrored set.
C31_Witness ==
  /\ last.op = "done"
  /\ last.ev = NoEvent
  /\ ~LastWorkspacesAccepted
  /\ chan = <<>>
  /\ workspaces # <<>>
  /\ workspaces = done_new_state
  /\ AppModel_workspaces(received) \notin workspaces_vec(workspaces)

(* ---------------------------------- C32 -------------------------------- *)

\* The consumer is polled by the iced runtime for as long as the channel
\* holds an event: a consumer that can receive does receive.
SpecLive == InitChan /\ [][NextChan]_vars /\ WF_vars(Consume)

\* C32: with a consumer that keeps receiving, the n-th event the channel
\* accepted is eventually the n-th event the consumer has received, and a
\* full channel eventually has room again; taking an event out of a full
\* channel leaves room, and a send attempt made while there is room is
\* accepted and queued behind the undelivered events.
C32_Delivery ==
  /\ \A n \in 1..MaxProduced :
       (Len(Accepted(produced)) >= n)
         ~> (Len(received) >= n /\ received[n] = Accepted(produced)[n])
  /\ (Len(chan) = Capacity) ~> (Len(chan) < Capacity)
  /\ [][(Consume /\ Len(chan) = Capacity) => Len(chan') = Capacity - 1]_vars
  /\ [][(Len(chan) < Capacity /\ produced' # produced)
          => /\ last'.ok
             /\ chan' = Append(chan, last'.ev)]_vars

\* An event was dropped by the full channel, the consumer then made room,
\* a later event was accepted, and every accepted event has been delivered.
C32_Witness ==
  /\ chan = <<>>
  /\ received = Accepted(produced)
  /\ \E i \in DOMAIN produced :
       /\ ~produced[i].ok
       /\ \E j \in DOMAIN produced : i < j /\ produced[j].ok

====
